---- MODULE Spec2Model ----
(***************************************************************************)
(* Settlement tracker, balance ledger and withdrawal pipeline of the       *)
(* contract server (src/src/contract/tracker.rs, src/src/contract/mod.rs,  *)
(* src/src/contract/calc.rs, src/src/api/chronosort.rs).                   *)
(*                                                                         *)
(* Decimal values are fixed-point integers in units of 1/Scale.  The ST    *)
(* heap is the vector of std's BinaryHeap, sifted with the comparison      *)
(* operators (<=) of ChronoSort, which PartialOrd::partial_cmp defines.    *)
(***************************************************************************)
EXTENDS Integers, Sequences, FiniteSets, TLC

\* ------------------------------------------------------------------ bounds
MaxPush == 2
MaxTime == 3
MaxWithdraw == 2
MaxLog == 5
MaxCount == 3
MaxHeaders == 2

\* --------------------------------------------------------------- constants
Scale == 1000
DecMAX == 2000000000
DecMIN == -2000000000
value == 100 * Scale
fee_frac == 50
rsh_frac == 50
interval == 3

Relays == {"R1", "R2"}
SKs == {"K1", "K2"}
Amounts == {0, 45}
Stamps == 1..MaxTime
NoRelay == "none"

\* --------------------------------------------------------- Decimal helpers
DecFrom(n) == n * Scale

DecMul(a, b) == (a * b) \div Scale

\* quotient rounded to the nearest unit of 1/Scale
DecDiv(a, b) == (2 * a * Scale + b) \div (2 * b)

\* DefaultShareCalc::reward
\* a reward that keeps only the fee off the pool
reward_fee_only(share) == DecMul(share, value - DecMul(fee_frac, value))

reward(share) ==
    DecMul(share, value - DecMul(fee_frac, value) - DecMul(rsh_frac, value))

\* ------------------------------------------------------------- ChronoSort
\* Sharetoken's Timestamped::timestamp
timestamp(st) == st.timestamp

\* ChronoSort::partial_cmp: the plain order of the timestamps
partial_cmp(a, b) ==
    IF timestamp(a) < timestamp(b) THEN "Less"
    ELSE IF timestamp(a) > timestamp(b) THEN "Greater" ELSE "Equal"

\* ChronoSort::cmp: the reversed order of the timestamps
cmp(a, b) ==
    IF timestamp(a) < timestamp(b) THEN "Greater"
    ELSE IF timestamp(a) > timestamp(b) THEN "Less" ELSE "Equal"

\* a <= b as the comparison operators compute it (PartialOrd::le)
le(a, b) == partial_cmp(a, b) \in {"Less", "Equal"}

\* ------------------------------------------- BinaryHeap<ChronoSort<_>>
\* BinaryHeap::sift_up: move elem from the hole at pos towards the root
RECURSIVE sift_up(_, _, _)
sift_up(data, pos, elem) ==
    IF pos > 1 /\ ~le(elem, data[pos \div 2])
    THEN sift_up([data EXCEPT ![pos] = data[pos \div 2]], pos \div 2, elem)
    ELSE [data EXCEPT ![pos] = elem]

\* BinaryHeap::push
heap_push(data, item) == sift_up(Append(data, item), Len(data) + 1, item)

\* BinaryHeap::sift_down_to_bottom: take the hole at pos down along the
\* greater children, then sift elem up from there
RECURSIVE sift_down_to_bottom(_, _, _)
sift_down_to_bottom(data, pos, elem) ==
    LET n == Len(data)
        child == 2 * pos
        c == IF le(data[child], data[child + 1]) THEN child + 1 ELSE child
    IN  IF child + 1 <= n
        THEN sift_down_to_bottom([data EXCEPT ![pos] = data[c]], c, elem)
        ELSE IF child = n
        THEN sift_up([data EXCEPT ![pos] = data[child]], child, elem)
        ELSE sift_up(data, pos, elem)

\* BinaryHeap::peek (of a non-empty heap)
heap_peek(data) == data[1]

\* BinaryHeap::pop (of a non-empty heap): the top and the heap left
heap_pop(data) ==
    LET n == Len(data)
    IN  [item |-> data[1],
         data |-> IF n = 1 THEN <<>>
                  ELSE sift_down_to_bottom(SubSeq(data, 1, n - 1), 1, data[n])]

\* one entry of the tracker log (enum Event), unused fields left blank
Event(ev, sk, rk, delta, act) ==
    [ev |-> ev, sk |-> sk, rk |-> rk, delta |-> delta, act |-> act]

\* ---------------------------------------------------------------- Balances
ZeroBal == [a |-> 0, p |-> 0]

\* self.h.entry(rk).or_default()
Entry(h, rk) == IF rk \in DOMAIN h THEN h ELSE h @@ (rk :> ZeroBal)

\* a draft that lets a withdrawal take the whole available balance
draft_to_zero(h, rk, delta, neg) ==
    LET e == Entry(h, rk)
        cur == e[rk]
        set == [e EXCEPT ![rk].p = delta]
    IN  IF cur.p # 0 THEN [h |-> e, res |-> "pending"]
        ELSE IF neg
        THEN IF cur.a <= 0 THEN [h |-> e, res |-> "zero cash"]
             ELSE IF cur.a + delta < 0 THEN [h |-> e, res |-> "insufficient"]
             ELSE IF DecMIN - delta >= cur.a THEN [h |-> e, res |-> "overflow"]
             ELSE [h |-> set, res |-> "Ok"]
        ELSE IF DecMAX - delta <= cur.a THEN [h |-> e, res |-> "overflow"]
             ELSE [h |-> set, res |-> "Ok"]

\* a draft that does not look at the pending delta
draft_over_pending(h, rk, delta, neg) ==
    LET e == Entry(h, rk)
        cur == e[rk]
        set == [e EXCEPT ![rk].p = delta]
    IN  IF neg
        THEN IF cur.a <= 0 THEN [h |-> e, res |-> "zero cash"]
             ELSE IF cur.a + delta <= 0 THEN [h |-> e, res |-> "insufficient"]
             ELSE IF DecMIN - delta >= cur.a THEN [h |-> e, res |-> "overflow"]
             ELSE [h |-> set, res |-> "Ok"]
        ELSE IF DecMAX - delta <= cur.a THEN [h |-> e, res |-> "overflow"]
             ELSE [h |-> set, res |-> "Ok"]

\* Balances::draft; neg is delta.is_sign_negative()
draft(h, rk, delta, neg) ==
    LET e == Entry(h, rk)
        cur == e[rk]
        set == [e EXCEPT ![rk].p = delta]
    IN  IF cur.p # 0 THEN [h |-> e, res |-> "pending"]
        ELSE IF neg
        THEN IF cur.a <= 0 THEN [h |-> e, res |-> "zero cash"]
             ELSE IF cur.a + delta <= 0 THEN [h |-> e, res |-> "insufficient"]
             ELSE IF DecMIN - delta >= cur.a THEN [h |-> e, res |-> "overflow"]
             ELSE [h |-> set, res |-> "Ok"]
        ELSE IF DecMAX - delta <= cur.a THEN [h |-> e, res |-> "overflow"]
             ELSE [h |-> set, res |-> "Ok"]

\* cfg!(allow_zero_apply), cfg!(allow_zero_abort)
allow_zero_apply == FALSE
allow_zero_abort == FALSE

\* a commit whose Abort adds the pending delta as Apply does
commit_abort_applies(h, rk, act, dbg) ==
    LET e == Entry(h, rk)
        cur == e[rk]
    IN  IF act = "Apply"
        THEN IF dbg /\ cur.p = 0 /\ ~allow_zero_apply
             THEN [h |-> e, panic |-> TRUE]
             ELSE [h |-> [e EXCEPT ![rk] = [a |-> cur.a + cur.p, p |-> 0]],
                   panic |-> FALSE]
        ELSE IF dbg /\ cur.p = 0 /\ ~allow_zero_abort
             THEN [h |-> e, panic |-> TRUE]
             ELSE [h |-> [e EXCEPT ![rk] = [a |-> cur.a + cur.p, p |-> 0]],
                   panic |-> FALSE]

\* Balances::commit; dbg is cfg!(debug_assertions)
commit(h, rk, act, dbg) ==
    LET e == Entry(h, rk)
        cur == e[rk]
    IN  IF act = "Apply"
        THEN IF dbg /\ cur.p = 0 /\ ~allow_zero_apply
             THEN [h |-> e, panic |-> TRUE]
             ELSE [h |-> [e EXCEPT ![rk] = [a |-> cur.a + cur.p, p |-> 0]],
                   panic |-> FALSE]
        ELSE IF dbg /\ cur.p = 0 /\ ~allow_zero_abort
             THEN [h |-> e, panic |-> TRUE]
             ELSE [h |-> [e EXCEPT ![rk].p = 0], panic |-> FALSE]

\* ------------------------------------------------------------ Tracker::tick
\* the drain loop: the heap left, the STs popped and the tick's result
RECURSIVE DrainLoop(_, _)

\* a drain loop that forgets the ST it stops at
DrainLoop_interval(heap, t) ==
    IF heap = <<>>
    THEN [rest |-> <<>>, popped |-> <<>>, next |-> t + interval]
    ELSE IF heap_peek(heap).settlement_close <= t
    THEN LET p == heap_pop(heap)
             o == DrainLoop(p.data, t)
         IN  [rest |-> o.rest, popped |-> <<p.item>> \o o.popped, next |-> o.next]
    ELSE [rest |-> heap, popped |-> <<>>, next |-> t + interval]

DrainLoop(heap, t) ==
    IF heap = <<>>
    THEN [rest |-> <<>>, popped |-> <<>>, next |-> t + interval]
    ELSE IF heap_peek(heap).settlement_close <= t
    THEN LET p == heap_pop(heap)
             o == DrainLoop(p.data, t)
         IN  [rest |-> o.rest, popped |-> <<p.item>> \o o.popped, next |-> o.next]
    ELSE [rest |-> heap, popped |-> <<>>,
          next |-> heap_peek(heap).settlement_close]

\* totals / tokens after counting the popped STs
RECURSIVE CountTotals(_, _, _)
CountTotals(tot, popped, i) ==
    IF i > Len(popped) THEN tot
    ELSE CountTotals([tot EXCEPT ![popped[i].public_key] = @ + DecFrom(1)],
                     popped, i + 1)

RECURSIVE CountTokens(_, _, _)
CountTokens(tok, popped, i) ==
    IF i > Len(popped) THEN tok
    ELSE CountTokens(
           [tok EXCEPT ![<<popped[i].public_key, popped[i].relay_pubkey>>] =
                          @ + DecFrom(1)],
           popped, i + 1)

\* the orders in which a HashMap can hand out the keys S
Orders(S) ==
    {f \in [1..Cardinality(S) -> S] :
       \A i, j \in 1..Cardinality(S) : f[i] = f[j] => i = j}

\* ------------------------------------------------------------------- state
VARIABLES
    sts,               \* Tracker.sts: the queued STs
    balances,          \* Tracker.balances.h: relay -> [a: available, p: pending]
    totals,            \* Tracker.totals: servicekey -> count
    tokens,            \* Tracker.tokens: (servicekey, relay) -> count
    archive_q,         \* Tracker.archive_q
    log,               \* Tracker.log.events
    log_on,            \* whether this specification records the log
    fs,                \* the tracker's root folder: archive/, unsettled/ and
                       \* balances.json
    txn_chan,          \* the BalanceUpdate channel (txn_tx -> Tracker.txn_chan)
    watcher_chan,      \* pending withdrawals handed to the watcher (watcher_tx)
    wh,                \* the /withdraw handler holding the shared-state lock
    tk,                \* the tracker task: idle or inside tick(t), with the latest
                       \* tick's t, result and the number of STs pushed before it
    alive,             \* FALSE once the tracker task has panicked
    debug_assertions,  \* cfg!(debug_assertions) of the build
    npushed,           \* history: number of STs pushed so far (the latest id)
    counted,           \* history: id -> times counted into totals/tokens
    credited,          \* history: ids whose (sk, relay) was credited by their tick
    hist,              \* history: per relay, drafts since the last commit
    open,              \* history: relay -> accepted withdrawals minus commits
    lastOp             \* history: the /withdraw draft or the txn_tick commit of
                       \* the latest step, if any, with the delta drafted or
                       \* the pending delta committed

vars == <<sts, balances, totals, tokens, archive_q, log, log_on, fs, txn_chan,
          watcher_chan, wh, tk, alive, debug_assertions, npushed, counted, credited,
          hist, open, lastOp>>

Keys == SKs \X Relays
NoHist == [prev |-> "none", ok |-> FALSE]
NoOp == [op |-> "none", drafted |-> FALSE, rk |-> NoRelay, delta |-> 0,
         res |-> "none", inp |-> "none"]
Idle == [pc |-> "idle", rk |-> NoRelay, amount |-> 0]
TkIdle == [pc |-> "idle", t |-> 1, next |-> 0, seen |-> 0, ret |-> FALSE]

\* TrackerLog::add; the log is written and never read by the server, and it is
\* recorded only in the specifications that are about it
LogAdd(lg, e) == IF log_on THEN Append(lg, e) ELSE lg

\* requests and ticks are taken while the recorded log has fewer than MaxLog
\* events
LogRoom == Len(log) < MaxLog

\* an empty root folder: the names of the ST files in archive/ and in
\* unsettled/, and the entries of balances.json (none when there is no file)
NoFiles == [balances |-> <<>>, archive |-> {}, unsettled |-> {}, saved |-> FALSE]

\* Tracker::new with no balances.json, freshly built shared state
Start ==
    /\ sts = <<>>
    /\ balances = <<>>
    /\ totals = [k \in SKs |-> 0]
    /\ tokens = [k \in Keys |-> 0]
    /\ archive_q = <<>>
    /\ log = <<>>
    /\ fs = NoFiles
    /\ txn_chan = <<>>
    /\ watcher_chan = <<>>
    /\ wh = Idle
    /\ tk = TkIdle
    /\ alive = TRUE
    /\ debug_assertions \in BOOLEAN
    /\ npushed = 0
    /\ counted = [i \in 1..MaxPush |-> 0]
    /\ credited = {}
    /\ hist = [r \in Relays |-> NoHist]
    /\ open = [r \in Relays |-> 0]
    /\ lastOp = NoOp

Init == Start /\ log_on = FALSE

InitLog == Start /\ log_on = TRUE

\* history of the drafts on rk since the last commit on rk: the result of the
\* latest one ("Ok0" for an Ok draft of delta 0, "err" for an error other than
\* "pending"), and whether any of them returned Ok
NoteDraft(hs, rk, delta, res) ==
    [hs EXCEPT ![rk] =
       [prev |-> IF res = "Ok" THEN (IF delta = 0 THEN "Ok0" ELSE "Ok")
                 ELSE IF res = "pending" THEN "pending" ELSE "err",
        ok |-> (@.ok \/ res = "Ok")]]

NoteCommit(hs, rk) == [hs EXCEPT ![rk] = NoHist]

RECURSIVE LogSettlements(_, _)

\* a tick that logs no Settlement
LogSettlements_none(lg, ord) == lg

\* Tracker::tick, lines 338-340: one Settlement event per key of totals, in
\* the order the HashMap hands them out
LogSettlements(lg, ord) ==
    IF ord = <<>> THEN lg
    ELSE LogSettlements(LogAdd(lg, Event("Settlement", ord[1], "", 0, "")),
                        Tail(ord))

\* the shared-state lock (state.rs SafeInner) is held by the /withdraw handler
\* from its start to its response; the tracker lock is held during a tick
st_locked == wh.pc # "idle"
tracker_locked == tk.pc # "idle"

Bal(h, rk) == Entry(h, rk)[rk]

\* ----------------------------------------------------------------- /submit
\* Tracker::push
push(st) ==
    /\ log' = LogAdd(log, Event("Submission", st.public_key, st.relay_pubkey,
                                0, ""))
    /\ sts' = heap_push(sts, st)

\* submit_post_handler, lines 73-89, on a body that was accepted: forUs is
\* contract.public_key = the server's key
SubmitOk(sk, rk, ts, close, forUs) ==
    /\ ~st_locked /\ ~tracker_locked
    /\ LogRoom
    /\ npushed < MaxPush
    /\ IF forUs
       THEN /\ push([id |-> npushed + 1, public_key |-> sk, relay_pubkey |-> rk,
                     timestamp |-> ts, settlement_close |-> close])
            /\ npushed' = npushed + 1
       ELSE UNCHANGED <<sts, log, npushed>>
    /\ UNCHANGED <<balances, totals, tokens, archive_q, txn_chan, watcher_chan,
                   wh, tk, alive, debug_assertions, log_on, fs, counted, credited,
                   hist, open>>

\* a /submit whose body is a validly signed ST
Submit(sk, rk, ts, close, forUs) ==
    /\ SubmitOk(sk, rk, ts, close, forUs)
    /\ lastOp' = NoOp

\* an ed25519 signature by the secret half of `key` over `msg`, and its
\* verification: a signature verifies under the key and message it was made
\* with and under no other
Sign(key, msg) == [t |-> "sig", key |-> key, msg |-> msg]
PubkeyOf(key) == [t |-> "pk", key |-> key, msg |-> "none"]
verify(pk, msg, sig) == sig = Sign(pk.key, msg)

\* the ':'-join of a vector of strings, kept as the sequence of its pieces
RECURSIVE Join(_)
Join(parts) ==
    IF Len(parts) <= 1 THEN parts
    ELSE <<Head(parts), ":">> \o Join(Tail(parts))

\* impl Signable for Sharetoken, digest, api/mod.rs lines 253-269
digest(st) ==
    Join(<<ToString(st.version),
           st.public_key,
           ToString(st.timestamp),
           st.relay_pubkey,
           "",
           st.nonce,
           st.contract.public_key,
           st.contract.signature,
           ToString(st.contract.settlement_open),
           ToString(st.contract.settlement_close)>>)

\* impl Signable for Sharetoken, sign, lines 279-282
sign(st, kp) ==
    LET keyed == [st EXCEPT !.public_key = kp]
    IN  [keyed EXCEPT !.signature = Sign(kp, digest(keyed))]

\* Signed::deserialize, signed.rs lines 28-32: TRUE when Signed(t) comes out
Signed_deserialize_unverified(st) == TRUE
Signed_deserialize(st) ==
    verify(PubkeyOf(st.public_key), digest(st), st.signature)

\* st.public.derived.public_key, and the key of another contract
ServerKey == "C1"
ContractKeys == {ServerKey, "C2"}

\* the comparison of line 75
not_for_contract_never(cpk) == FALSE
not_for_contract(cpk) == cpk # ServerKey

\* the Sharetokens a client sends: signed by the servicekey sk, then
\* possibly altered in one field
Sharetoken(sk, rk, ts, close, cpk) ==
    sign([timestamp |-> ts, public_key |-> sk, relay_pubkey |-> rk,
          version |-> 1, nonce |-> "n1",
          contract |-> [settlement_close |-> close, public_key |-> cpk,
                        signature |-> "csig1", settlement_open |-> 0],
          signature |-> Sign("none", <<>>)],
         sk)

Fields == {"none", "version", "public_key", "timestamp", "relay_pubkey",
           "signature", "nonce", "contract.public_key", "contract.signature",
           "settlement_open", "settlement_close"}

Other(x, S) == CHOOSE y \in S : y # x

Altered(st, field) ==
    CASE field = "none" -> st
      [] field = "version" -> [st EXCEPT !.version = 2]
      [] field = "public_key" ->
            [st EXCEPT !.public_key = Other(st.public_key, SKs)]
      [] field = "timestamp" -> [st EXCEPT !.timestamp = st.timestamp + 1]
      [] field = "relay_pubkey" ->
            [st EXCEPT !.relay_pubkey = Other(st.relay_pubkey, Relays)]
      [] field = "signature" ->
            [st EXCEPT !.signature = Sign(st.public_key, <<"flipped">>)]
      [] field = "nonce" -> [st EXCEPT !.nonce = "n2"]
      [] field = "contract.public_key" ->
            [st EXCEPT !.contract.public_key =
                           Other(st.contract.public_key, ContractKeys)]
      [] field = "contract.signature" ->
            [st EXCEPT !.contract.signature = "csig2"]
      [] field = "settlement_open" ->
            [st EXCEPT !.contract.settlement_open = 1]
      [] field = "settlement_close" ->
            [st EXCEPT !.contract.settlement_close =
                           st.contract.settlement_close + 1]

\* submit_post_handler with the extraction of its body: a Sharetoken that
\* Signed::deserialize refuses is answered by lines 91-96 before any lock is
\* taken, every other by lines 73-89
SubmitBody(st) ==
    IF Signed_deserialize(st)
    THEN /\ SubmitOk(st.public_key, st.relay_pubkey, st.timestamp,
                     st.contract.settlement_close,
                     ~not_for_contract(st.contract.public_key))
         /\ lastOp' = [NoOp EXCEPT
               !.op = "submit", !.inp = st,
               !.res = IF not_for_contract(st.contract.public_key)
                       THEN [code |-> 400,
                             desc |-> "Sharetoken is not for this contract"]
                       ELSE [code |-> 200, desc |-> "OK"]]
    ELSE /\ lastOp' = [NoOp EXCEPT
               !.op = "submit", !.inp = st,
               !.res = [code |-> 400, desc |-> "signature error"]]
         /\ UNCHANGED <<sts, balances, totals, tokens, archive_q, log, log_on, fs,
                        txn_chan, watcher_chan, wh, tk, alive,
                        debug_assertions, npushed, counted, credited, hist,
                        open>>

\* -------------------------------------------------------------------- tick
\* Tracker::tick, lines 287-321: the drain loop
TickDrain(t) ==
    /\ alive /\ ~tracker_locked
    /\ LogRoom
    /\ LET o == DrainLoop(sts, t)
       IN
         /\ sts' = o.rest
         /\ totals' = CountTotals(totals, o.popped, 1)
         /\ tokens' = CountTokens(tokens, o.popped, 1)
         /\ archive_q' = archive_q \o o.popped
         /\ counted' = [i \in 1..MaxPush |->
                          counted[i] + Cardinality({j \in 1..Len(o.popped) :
                                                       o.popped[j].id = i})]
         /\ tk' = [pc |-> "dist", t |-> t, next |-> o.next, seen |-> npushed,
                   ret |-> FALSE]
    /\ lastOp' = NoOp
    /\ UNCHANGED <<balances, log, txn_chan, watcher_chan, wh, alive,
                   debug_assertions, log_on, fs, npushed, credited, hist, open>>

\* Tracker::tick, lines 324-334: one round of the loop over tokens.drain()
TickDistribute(sk, rk) ==
    /\ tk.pc = "dist"
    /\ tokens[<<sk, rk>>] # 0
    /\ LET v == DecDiv(tokens[<<sk, rk>>], totals[sk])
           r == reward(v)
           d == draft(balances, rk, r, r < 0)
           c == commit(d.h, rk, "Apply", debug_assertions)
           ok == r >= 0 /\ d.res = "Ok" /\ ~c.panic
       IN  /\ balances' = IF r < 0 THEN balances
                          ELSE IF d.res # "Ok" THEN d.h ELSE c.h
           /\ hist' = IF r < 0 THEN hist
                      ELSE IF d.res # "Ok" \/ c.panic
                      THEN NoteDraft(hist, rk, r, d.res)
                      ELSE NoteCommit(hist, rk)
           /\ IF ok
              THEN /\ log' = LogAdd(log, Event("Distribution", sk, rk, r, ""))
                   /\ tokens' = [tokens EXCEPT ![<<sk, rk>>] = 0]
                   /\ credited' = credited \cup
                        {archive_q[j].id : j \in {i \in 1..Len(archive_q) :
                             /\ archive_q[i].public_key = sk
                             /\ archive_q[i].relay_pubkey = rk}}
                   /\ UNCHANGED <<tk, alive>>
              ELSE \* panic: the task unwinds, dropping the Drain
                   /\ tokens' = [k \in DOMAIN tokens |-> 0]
                   /\ tk' = [tk EXCEPT !.pc = "idle"]
                   /\ alive' = FALSE
                   /\ UNCHANGED <<log, credited>>
    /\ lastOp' = NoOp
    /\ UNCHANGED <<sts, totals, archive_q, txn_chan, watcher_chan, wh, debug_assertions, log_on, fs, npushed, counted, open>>

\* the file names of a sequence of STs
Ids(q) == {q[i].id : i \in 1..Len(q)}

\* Tracker::tick, lines 335-360: settlement events, archive, log, return;
\* save_st fails on the STs `failed` and reports it by debug! only
TickEnd(failed) ==
    /\ tk.pc = "dist"
    /\ \A k \in DOMAIN tokens : tokens[k] = 0
    /\ \E ord \in Orders({k \in SKs : totals[k] # 0}) :
         log' = LogSettlements(log, ord)
    /\ totals' = [k \in SKs |-> 0]
    /\ fs' = [fs EXCEPT !.archive = @ \cup (Ids(archive_q) \ failed)]
    /\ archive_q' = <<>>
    /\ tk' = [tk EXCEPT !.pc = "idle", !.ret = TRUE]
    /\ lastOp' = NoOp
    /\ UNCHANGED <<sts, balances, tokens, txn_chan, watcher_chan, wh, alive, debug_assertions, log_on, npushed, counted, credited, hist, open>>

\* the end of a tick whose archive writes all succeed
TickFinish == TickEnd({})

\* --------------------------------------------------------------- /withdraw
\* the wireleap-relay-pubkey and wireleap-relay-signature headers of a
\* /withdraw request: one of them missing, one of a wrong length, both well
\* formed with a signature that does not verify over the body ("badsig"),
\* both well formed with one that does ("ok")
Headers == {"missing", "badlen", "badsig", "ok"}

\* a handler that goes on to the payment system whatever draft returned
drafted_always(res) == TRUE

\* the `?` on the result of draft, mod.rs lines 174-185: an Err ends the
\* handler with a 500 that carries the ledger's reason
drafted_ok(res) == res = "Ok"

\* withdraw_post_handler, lines 109-185: take the shared-state lock, look
\* for the two headers and at their lengths, find the payout method (typeOk),
\* draft -amount
WithdrawStart(hdr, rk, amount, typeOk) ==
    /\ ~st_locked /\ ~tracker_locked
    /\ LogRoom
    /\ open["R1"] + open["R2"] < MaxWithdraw
    /\ LET delta == 0 - DecFrom(amount)
           d == draft(balances, rk, delta, TRUE)
       IN  IF hdr \in {"missing", "badlen"}
           THEN /\ lastOp' = [NoOp EXCEPT !.op = "withdraw",
                                          !.res = "bad headers", !.inp = hdr]
                /\ UNCHANGED <<balances, wh, hist, open>>
           ELSE IF ~typeOk
           THEN /\ lastOp' = [NoOp EXCEPT !.op = "withdraw",
                                          !.res = "no payout", !.inp = hdr]
                /\ UNCHANGED <<balances, wh, hist, open>>
           ELSE /\ balances' = d.h
                /\ hist' = NoteDraft(hist, rk, delta, d.res)
                /\ lastOp' = [op |-> "withdraw", drafted |-> TRUE, rk |-> rk,
                              delta |-> delta, res |-> d.res, inp |-> hdr]
                /\ IF drafted_ok(d.res)
                   THEN /\ wh' = [pc |-> "ps", rk |-> rk, amount |-> amount]
                        /\ open' = [open EXCEPT ![rk] = @ + 1]
                   ELSE UNCHANGED <<wh, open>>
    /\ UNCHANGED <<sts, totals, tokens, archive_q, log, txn_chan, watcher_chan,
                   tk, alive, debug_assertions, log_on, fs, npushed, counted, credited>>

\* withdraw_post_handler, lines 187-230: the payment system's answer.
\* outcome "fail" is a failed request or an unreadable body
PSAnswer(outcome) ==
    /\ wh.pc = "ps"
    /\ watcher_chan' = IF outcome = "Pending"
                       THEN Append(watcher_chan, wh.rk) ELSE watcher_chan
    /\ wh' = Idle
    /\ UNCHANGED <<sts, balances, totals, tokens, archive_q, log, txn_chan, tk,
                   alive, debug_assertions, log_on, fs, npushed, counted, credited, hist,
                   open>>

PSRespond(outcome) == PSAnswer(outcome) /\ lastOp' = NoOp

\* the same step with the relay and the payment system's answer recorded
PSNoted(outcome) ==
    /\ PSAnswer(outcome)
    /\ lastOp' = [NoOp EXCEPT !.rk = wh.rk, !.res = outcome, !.op = "ps"]

\* the watcher: a pending withdrawal reaches its terminal state at the
\* payment system and the outcome is sent as a BalanceUpdate
WatcherReport(i, act) ==
    /\ i \in 1..Len(watcher_chan)
    /\ txn_chan' = Append(txn_chan, [relay |-> watcher_chan[i], action |-> act])
    /\ watcher_chan' = [j \in 1..(Len(watcher_chan) - 1) |->
                          IF j < i THEN watcher_chan[j] ELSE watcher_chan[j + 1]]
    /\ lastOp' = NoOp
    /\ UNCHANGED <<sts, balances, totals, tokens, archive_q, log, wh, tk, alive,
                   debug_assertions, log_on, fs, npushed, counted, credited, hist, open>>

\* Tracker::txn_tick
TxnTick ==
    /\ alive /\ ~tracker_locked
    /\ IF txn_chan # <<>>
       THEN LET upd == Head(txn_chan)
                c == commit(balances, upd.relay, upd.action, debug_assertions)
            IN  /\ txn_chan' = Tail(txn_chan)
                /\ balances' = c.h
                /\ open' = [open EXCEPT ![upd.relay] = @ - 1]
                /\ IF c.panic
                   THEN /\ alive' = FALSE
                        /\ UNCHANGED <<log, hist>>
                   ELSE /\ log' = LogAdd(log, Event("WithdrawalFinal", "",
                                                     upd.relay, 0, upd.action))
                        /\ hist' = NoteCommit(hist, upd.relay)
                        /\ UNCHANGED alive
       ELSE UNCHANGED <<txn_chan, balances, open, alive, log, hist>>
    /\ lastOp' = IF txn_chan # <<>>
                 THEN [op |-> "commit", drafted |-> FALSE,
                       rk |-> Head(txn_chan).relay,
                       delta |-> Bal(balances, Head(txn_chan).relay).p,
                       res |-> Head(txn_chan).action, inp |-> "none"]
                 ELSE NoOp
    /\ UNCHANGED <<sts, totals, tokens, archive_q, watcher_chan, wh, tk, debug_assertions, log_on, fs, npushed, counted, credited>>

Outcomes == {"fail", "Pending", "Complete", "Error"}
Actions == {"Apply", "Abort"}

\* a tick at one of the times T, which never run backwards
Tick(T) ==
    \/ \E t \in T : tk.t <= t /\ TickDrain(t)
    \/ \E sk \in SKs, rk \in Relays : TickDistribute(sk, rk)
    \/ TickFinish

Withdrawals ==
    \/ \E rk \in Relays, amount \in Amounts, typeOk \in BOOLEAN :
          WithdrawStart("ok", rk, amount, typeOk)
    \/ \E outcome \in Outcomes : PSRespond(outcome)
    \/ \E i \in 1..MaxWithdraw, act \in Actions : WatcherReport(i, act)
    \/ TxnTick

\* the whole server; the STs submitted are all of time 1 and are all due at
\* the ticks, which makes the time of a tick immaterial
Next ==
    \/ \E sk \in SKs, rk \in Relays, forUs \in BOOLEAN :
          Submit(sk, rk, 1, 1, forUs)
    \/ Tick({1})
    \/ Withdrawals

Spec == Init /\ [][Next]_vars

\* the tracker alone, under every ST timestamp and settlement_close, with
\* the STs of one servicekey and one relay
NextTracker ==
    \/ \E ts \in Stamps, close \in Stamps, forUs \in BOOLEAN :
          Submit("K1", "R1", ts, close, forUs)
    \/ Tick(Stamps)

SpecTracker == Init /\ [][NextTracker]_vars

\* the request handlers under every kind of request, with the ticks that
\* give the relays a balance
NextRequests ==
    \/ \E sk \in SKs, rk \in Relays, forUs \in BOOLEAN :
          Submit(sk, rk, 1, 1, forUs)
    \/ Tick({1})
    \/ \E hdr \in Headers, rk \in Relays, amount \in Amounts, typeOk \in BOOLEAN :
          WithdrawStart(hdr, rk, amount, typeOk)
    \/ \E outcome \in Outcomes : PSRespond(outcome)

SpecRequests == Init /\ [][NextRequests]_vars

\* /submit under every kind of Sharetoken, with the ticks and the tracker log
NextSubmit ==
    \/ \E cpk \in ContractKeys, field \in Fields :
          SubmitBody(Altered(Sharetoken("K1", "R1", 1, 1, cpk), field))
    \/ Tick({1})

SpecSubmit == InitLog /\ [][NextSubmit]_vars

\* the whole server with a payment system that answers, a watcher that
\* reports and a tracker task that keeps ticking and polling the
\* BalanceUpdate channel
Fairness ==
    /\ WF_vars(Tick({1}))
    /\ WF_vars(\E outcome \in Outcomes : PSRespond(outcome))
    /\ WF_vars(\E i \in 1..MaxWithdraw, act \in Actions : WatcherReport(i, act))
    /\ SF_vars(TxnTick)

SpecLive == Init /\ [][Next]_vars /\ Fairness

\* ------------------------------------------- the distribution of one tick
\* a tick that has just drained its due STs: cnt[sk, rk] of them for each
\* servicekey and relay, all the ledger still empty
ShareRelays == Relays \cup {"R3"}
ShareKeys == SKs \X ShareRelays

RECURSIVE SumOf(_, _)
SumOf(f, S) ==
    IF S = {} THEN 0
    ELSE LET x == CHOOSE y \in S : TRUE IN f[x] + SumOf(f, S \ {x})

\* the STs popped, as the drain loop queues them for the archive
RECURSIVE Drained(_, _, _)
Drained(cnt, ks, id) ==
    IF ks = {} THEN <<>>
    ELSE LET k == CHOOSE y \in ks : TRUE
         IN  [i \in 1..cnt[k] |->
                [id |-> id + i, public_key |-> k[1], relay_pubkey |-> k[2],
                 timestamp |-> 1, settlement_close |-> 1]]
             \o Drained(cnt, ks \ {k}, id + cnt[k])

ShareCounts ==
    {c \in [ShareKeys -> 0..MaxCount] : \A r \in ShareRelays : c[<<"K2", r>>] <= 1}

SharesStart(cnts, on) ==
    \E cnt \in cnts :
       LET n == SumOf(cnt, ShareKeys)
       IN  /\ sts = <<>>
           /\ balances = <<>>
           /\ tokens = [k \in ShareKeys |-> DecFrom(cnt[k])]
           /\ totals = [sk \in SKs |->
                          DecFrom(SumOf(cnt, {sk} \X ShareRelays))]
           /\ archive_q = Drained(cnt, ShareKeys, 0)
           /\ log = <<>>
           /\ log_on = on
           /\ fs = NoFiles
           /\ txn_chan = <<>>
           /\ watcher_chan = <<>>
           /\ wh = Idle
           /\ tk = [pc |-> "dist", t |-> 1, next |-> 1 + interval, seen |-> n,
                    ret |-> FALSE]
           /\ alive = TRUE
           /\ debug_assertions \in BOOLEAN
           /\ npushed = n
           /\ counted = [i \in 1..n |-> 1]
           /\ credited = {}
           /\ hist = [r \in ShareRelays |-> NoHist]
           /\ open = [r \in ShareRelays |-> 0]
           /\ lastOp = NoOp

InitShares == SharesStart(ShareCounts, FALSE)

\* at most one due ST for each servicekey and relay
OneEach == {c \in [ShareKeys -> 0..1] : TRUE}

NextShares ==
    \/ \E sk \in SKs, rk \in ShareRelays : TickDistribute(sk, rk)
    \/ TickFinish

SpecShares == InitShares /\ [][NextShares]_vars

\* the same tick with its log recorded
SpecSharesLog == SharesStart(OneEach, TRUE) /\ [][NextShares]_vars

\* ---------------------------------------------------------- derive(Sign)
\* the named fields of the two structs, in declaration order, api/mod.rs
\* lines 233-238 and 241-249; no field carries the digest_sig attribute
SKContract_fields == <<"public_key", "signature", "settlement_open",
                       "settlement_close">>
Sharetoken_fields == <<"version", "public_key", "timestamp", "relay_pubkey",
                       "signature", "nonce", "contract">>
digest_sig == {}

\* impl_digest, macros/src/lib.rs lines 28-46: the fields for which
\* self.<field>.digest() is emitted
impl_digest(fields) ==
    SelectSeq(fields, LAMBDA name : ~(name = "signature" /\ name \notin digest_sig))

\* Digestible for T: ToString, digestible.rs lines 8-12, on a field of
\* either struct: integers in decimal, keys and strings as they are
NumberFields == {"version", "timestamp", "settlement_open", "settlement_close"}
to_string(rec, name) ==
    IF name \in NumberFields THEN ToString(rec[name]) ELSE rec[name]

\* join(":") over pieces that may themselves be joins
RECURSIVE JoinAll(_)
JoinAll(parts) ==
    IF parts = <<>> THEN <<>>
    ELSE IF Len(parts) = 1 THEN Head(parts)
    ELSE Head(parts) \o <<":">> \o JoinAll(Tail(parts))

\* the digest that derive(Sign) generates for SKContract, lib.rs line 13
SKContract_derived_digest(c) ==
    LET emitted == impl_digest(SKContract_fields)
    IN  JoinAll([i \in 1..Len(emitted) |-> <<to_string(c, emitted[i])>>])

\* the digest that derive(Sign) generates for Sharetoken, lib.rs line 13:
\* the contract field contributes self.contract.digest()
Sharetoken_derived_digest(st) ==
    LET emitted == impl_digest(Sharetoken_fields)
    IN  JoinAll([i \in 1..Len(emitted) |->
                   IF emitted[i] = "contract"
                   THEN SKContract_derived_digest(st.contract)
                   ELSE <<to_string(st, emitted[i])>>])

\* the two implementations of Signable::digest for Sharetoken
Impls == {"hand-written", "derive(Sign)"}

\* a Sharetoken is digested by one of the implementations
Digest(st, impl) ==
    /\ lastOp' = [NoOp EXCEPT
                    !.op = "digest",
                    !.inp = [st |-> st, impl |-> impl],
                    !.res = IF impl = "hand-written" THEN digest(st)
                            ELSE Sharetoken_derived_digest(st)]
    /\ UNCHANGED <<sts, balances, totals, tokens, archive_q, log, log_on, fs,
                   txn_chan, watcher_chan, wh, tk, alive, debug_assertions,
                   npushed, counted, credited, hist, open>>

SpecDigest ==
    Init /\ [][\E sk \in SKs, rk \in Relays, cpk \in ContractKeys,
                  field \in Fields, impl \in Impls :
                  Digest(Altered(Sharetoken(sk, rk, 1, 1, cpk), field), impl)]_vars

\* ------------------------------------------------- header-signed extractor
\* Signatory and Field derive EnumString: from_str answers the variant whose
\* name is the string as written, and None for every other string
None == "None"
NoValue == [t |-> "none", key |-> "none", msg |-> "none"]
Signatory_from_str(str) ==
    IF str \in {"Auth", "Relay", "Client", "Contract", "Directory"}
    THEN str ELSE None
Field_from_str(str) ==
    IF str \in {"Pubkey", "Signature"} THEN str ELSE None

\* one step of the fold of from_request, lines 56-84: k is the header name
\* split at "-", v the header value
fold_step(acc, k, v) ==
    IF k[1] = "wireleap" /\ Len(k) >= 2
    THEN IF Len(k) = 3
         THEN LET who == Signatory_from_str(k[2])
                  what == Field_from_str(k[3])
              IN  IF who # None
                  THEN IF what # None
                       THEN IF acc[1] # None
                            THEN <<None, NoValue, NoValue>>
                            ELSE IF what = "Pubkey"
                                 THEN <<who, v, acc[2]>>
                                 ELSE <<who, acc[2], v>>
                       ELSE acc
                  ELSE acc
         ELSE acc
    ELSE acc

RECURSIVE fold(_, _)
fold(acc, headers) ==
    IF headers = <<>> THEN acc
    ELSE fold(fold_step(acc, Head(headers).k, Head(headers).v), Tail(headers))

\* error(s), lines 32-37
error(str) == [data |-> None, public_key |-> NoValue, ok |-> FALSE,
               code |-> 400, desc |-> str, signatory |-> None,
               signature |-> NoValue]

\* the writing of a key or a signature in a header value, and the reading of
\* it by line 86 or 87: a value that holds a key reads as a key only, one
\* that holds a signature as a signature only
Base64_read(v, t) == IF v.t = t THEN v ELSE NoValue

\* axum's Json extractor on a body: the payload the bytes stand for
Json_from(body) == [payload |-> body]

\* HeaderSignedJson::from_request, lines 50-107
from_request(req) ==
    LET acc == fold(<<None, NoValue, NoValue>>, req.headers)
    IN  IF acc[1] # None /\ acc[2] # NoValue /\ acc[3] # NoValue
        THEN LET pk == Base64_read(acc[2], "pk")
                 sig == Base64_read(acc[3], "sig")
             IN  IF pk = NoValue \/ sig = NoValue THEN error("base64")
                 ELSE IF verify(pk, req.body, sig)
                 THEN [data |-> Json_from(req.body), public_key |-> pk,
                       ok |-> TRUE, code |-> 200, desc |-> "OK",
                       signatory |-> acc[1], signature |-> sig]
                 ELSE error("invalid signature")
        ELSE error("missing headers")

\* the requests: header names as the http crate hands them over (in lower
\* case), split at "-"; values are keys and signatures over either body
Bodies == {"b1", "b2"}
HeaderNames ==
    {<<"wireleap", who, what>> : who \in {"relay", "auth"},
                                 what \in {"pubkey", "signature"}}
        \cup {<<"content", "type">>}
HeaderValues ==
    {PubkeyOf("pk1")} \cup {Sign("pk1", b) : b \in Bodies}
AllHeaders == [k : HeaderNames, v : HeaderValues]
RECURSIVE SeqsUpTo(_, _)
SeqsUpTo(S, n) ==
    IF n = 0 THEN {<<>>}
    ELSE LET shorter == SeqsUpTo(S, n - 1)
         IN  shorter \cup {Append(q, x) : q \in shorter, x \in S}
Requests == [headers : SeqsUpTo(AllHeaders, MaxHeaders), body : {"b1"}]

\* a request goes through the extractor
Extract(req) ==
    /\ lastOp' = [NoOp EXCEPT !.op = "extract", !.res = from_request(req),
                               !.inp = req]
    /\ UNCHANGED <<sts, balances, totals, tokens, archive_q, log, log_on, fs,
                   txn_chan, watcher_chan, wh, tk, alive, debug_assertions,
                   npushed, counted, credited, hist, open>>

SpecExtract == Init /\ [][\E req \in Requests : Extract(req)]_vars

\* ------------------------------------------------- shutdown and startup
\* Decimal's text in balances.json: the sign, the digits before the point
\* and the ScaleDigits digits after it
ScaleDigits == 3

RECURSIVE Digits(_)
Digits(n) == IF n < 10 THEN <<n>> ELSE Append(Digits(n \div 10), n % 10)

RECURSIVE FracDigits(_, _)
FracDigits(f, w) ==
    IF w = 0 THEN <<>> ELSE Append(FracDigits(f \div 10, w - 1), f % 10)

RECURSIVE FromDigits(_)
FromDigits(ds) ==
    IF ds = <<>> THEN 0
    ELSE 10 * FromDigits(SubSeq(ds, 1, Len(ds) - 1)) + ds[Len(ds)]

RECURSIVE Pow10(_)
Pow10(n) == IF n = 0 THEN 1 ELSE 10 * Pow10(n - 1)

Decimal_to_string(v) ==
    LET m == IF v < 0 THEN 0 - v ELSE v
    IN  [neg |-> v < 0, int |-> Digits(m \div Scale),
         frac |-> FracDigits(m % Scale, ScaleDigits)]

Decimal_from_str(str) ==
    LET m == FromDigits(str.int) * Scale
               + FromDigits(str.frac) * Pow10(ScaleDigits - Len(str.frac))
    IN  IF str.neg THEN 0 - m ELSE m

\* Balances::export followed by serde_json::to_string, tracker.rs lines
\* 219-226 and 431: one entry per relay, in the order `ord` in which the
\* HashMap hands out its keys
export(h, ord) ==
    [i \in 1..Len(ord) |->
       [a |-> Decimal_to_string(h[ord[i]].a),
        p |-> Decimal_to_string(h[ord[i]].p), k |-> ord[i]]]

\* a startup that finds no snapshot
from_nothing(saved, text) == <<>>

\* serde_json::from_slice followed by unwrap_or_default and Balances::from,
\* tracker.rs lines 249-255 and 210-217; saved is whether the file is there
from(saved, text) ==
    IF ~saved THEN <<>>
    ELSE [rk \in {text[i].k : i \in 1..Len(text)} |->
            LET e == text[CHOOSE i \in 1..Len(text) : text[i].k = rk]
            IN  [a |-> Decimal_from_str(e.a), p |-> Decimal_from_str(e.p)]]

\* impl Drop for Tracker, lines 412-434, at a graceful shutdown: no handler
\* and no tick holds the tracker; written is whether std::fs::write of
\* balances.json succeeded (its result is discarded)
Drop(written) ==
    /\ tk.pc = "idle" /\ wh.pc = "idle"
    /\ \E ord \in Orders(DOMAIN balances) :
         fs' = [balances |-> IF written THEN export(balances, ord)
                             ELSE fs.balances,
                archive |-> fs.archive \cup Ids(archive_q),
                unsettled |-> fs.unsettled \cup Ids(sts),
                saved |-> fs.saved \/ written]
    /\ tk' = [tk EXCEPT !.pc = "down"]
    /\ lastOp' = [NoOp EXCEPT !.op = "drop",
                              !.res = IF written THEN "written" ELSE "failed"]
    /\ UNCHANGED <<sts, balances, totals, tokens, archive_q, log, log_on,
                   txn_chan, watcher_chan, wh, alive, debug_assertions,
                   npushed, counted, credited, hist, open>>

\* a startup that loads the STs of unsettled/ back into the heap
new_sts_reloaded(queued) == queued

\* Tracker::new, line 262: `sts: BinaryHeap::new()`; queued are the STs the
\* previous process held, which its Drop wrote to unsettled/
new_sts(queued) == <<>>

\* Tracker::new, lines 235-271, with the fresh shared state and channels of
\* the new process
New ==
    /\ tk.pc = "down"
    /\ sts' = new_sts(sts)
    /\ balances' = from(fs.saved, fs.balances)
    /\ totals' = [k \in SKs |-> 0]
    /\ tokens' = [k \in DOMAIN tokens |-> 0]
    /\ archive_q' = <<>>
    /\ log' = <<>>
    /\ txn_chan' = <<>>
    /\ watcher_chan' = <<>>
    /\ wh' = Idle
    /\ tk' = [tk EXCEPT !.pc = "idle", !.ret = FALSE]
    /\ alive' = TRUE
    /\ lastOp' = [NoOp EXCEPT !.op = "new"]
    /\ UNCHANGED <<log_on, fs, debug_assertions, npushed, counted, credited,
                   hist, open>>

\* the server with shutdowns and startups; the withdrawals are those of one
\* relay and stay uncommitted
NextRestart ==
    \/ \E rk \in Relays : Submit("K1", rk, 1, 1, TRUE)
    \/ Tick({1})
    \/ \E amount \in Amounts : WithdrawStart("ok", "R1", amount, TRUE)
    \/ PSRespond("Complete")
    \/ \E written \in BOOLEAN : Drop(written)
    \/ New

SpecRestart == Init /\ [][NextRestart]_vars

\* ---------------------------------------------------------------- /activate

\* SystemTime has a finer grain than the second: SubSec units to the second
SubSec == 2
Nows == 0..(SubSec * MaxTime + 1)

\* cfg.rs defaults: servicekey.duration and settlement.submission_window, in
\* seconds
duration == 600
submission_window == 3600

\* time.rs utime: whole seconds since the epoch
utime(t) == t \div SubSec

\* a contract whose submission window was not added
activate_no_window(now) ==
    LET uso == utime(now + duration * SubSec)
    IN  [settlement_close |-> uso, public_key |-> ServerKey,
         signature |-> Sign(ServerKey,
                            Join(<<ServerKey, ToString(uso), ToString(uso)>>)),
         settlement_open |-> uso]

\* activate_post_handler, mod.rs lines 35-54: the SKContract built at `now`
activate(now) ==
    LET skd == duration * SubSec
        subw == submission_window * SubSec
        pk == ServerKey
        so == now + skd
        ss == so + subw
        uso == utime(so)
        uss == utime(ss)
        msg == Join(<<pk, ToString(uso), ToString(uss)>>)
    IN  [settlement_close |-> uss, public_key |-> pk,
         signature |-> Sign(ServerKey, msg), settlement_open |-> uso]

\* activate_post_handler with a well-formed body: it takes the shared-state
\* lock for reading and answers with the contract
Activate(now) ==
    /\ ~st_locked
    /\ lastOp' = [rk |-> NoRelay, delta |-> 0, res |-> "none",
                  op |-> "activate", drafted |-> FALSE, inp |-> "none",
                  now |-> now, skc |-> activate(now)]
    /\ UNCHANGED <<sts, balances, totals, tokens, archive_q, log, log_on, fs,
                   txn_chan, watcher_chan, wh, tk, alive, debug_assertions,
                   npushed, counted, credited, hist, open>>

\* the server with activations among its submissions, ticks and withdrawals
NextActivate ==
    \/ \E rk \in Relays : Submit("K1", rk, 1, 1, TRUE)
    \/ Tick({1})
    \/ \E amount \in Amounts : WithdrawStart("ok", "R1", amount, TRUE)
    \/ PSRespond("Complete")
    \/ \E now \in Nows : Activate(now)

SpecActivate == Init /\ [][NextActivate]_vars

\* the /withdraw handler with the payment system's answers recorded, beside
\* the submissions and ticks that give the relays a balance; no withdrawal is
\* committed
NextWithdraw ==
    \/ \E rk \in Relays : Submit("K1", rk, 1, 1, TRUE)
    \/ Tick({1})
    \/ \E rk \in Relays, amount \in Amounts, typeOk \in BOOLEAN :
          WithdrawStart("ok", rk, amount, typeOk)
    \/ \E outcome \in Outcomes : PSNoted(outcome)

SpecWithdraw == Init /\ [][NextWithdraw]_vars

\* the tracker with its log recorded, under STs of every servicekey and relay
NextSettle ==
    \/ \E sk \in SKs, rk \in Relays : Submit(sk, rk, 1, 1, TRUE)
    \/ Tick({1})

SpecSettle == InitLog /\ [][NextSettle]_vars

\* a Sharetoken of servicekey sk that embeds the contract c
SharetokenOf(sk, rk, ts, c) ==
    sign([timestamp |-> ts, public_key |-> sk, relay_pubkey |-> rk,
          version |-> 1, nonce |-> "n1", contract |-> c,
          signature |-> Sign("none", <<>>)],
         sk)

\* the contracts a client can embed: one the server issued at `now`, or that
\* contract with a settlement_close of the client's choosing
Contracts ==
    {activate(now) : now \in Nows} \cup
    {[activate(now) EXCEPT !.settlement_close = @ + 1] : now \in Nows}

\* /submit under Sharetokens that carry the server's key in their contract
NextContract ==
    \E c \in Contracts, rk \in Relays : SubmitBody(SharetokenOf("K1", rk, 1, c))

SpecContract == Init /\ [][NextContract]_vars

\* ------------------------------------------------ the order of ChronoSort
\* the ChronoSort<Sharetoken> values, as the heap holds them
Chronos ==
    [timestamp : Stamps, settlement_close : Stamps, public_key : {"K1"},
     relay_pubkey : Relays, id : {1}]

\* two values are compared through both implementations
Compare(a, b) ==
    /\ lastOp' = [NoOp EXCEPT
                    !.op = "compare",
                    !.inp = [a |-> a, b |-> b],
                    !.res = [ord |-> cmp(a, b), partial |-> partial_cmp(a, b)]]
    /\ UNCHANGED <<sts, balances, totals, tokens, archive_q, log, log_on, fs,
                   txn_chan, watcher_chan, wh, tk, alive, debug_assertions,
                   npushed, counted, credited, hist, open>>

SpecCompare == Init /\ [][\E a \in Chronos, b \in Chronos : Compare(a, b)]_vars

\* the tracker on a disk whose writes can fail
NextArchive ==
    \/ \E sk \in SKs, rk \in Relays, forUs \in BOOLEAN :
          Submit(sk, rk, 1, 1, forUs)
    \/ \E t \in {1} : tk.t <= t /\ TickDrain(t)
    \/ \E sk \in SKs, rk \in Relays : TickDistribute(sk, rk)
    \/ \E failed \in SUBSET Ids(archive_q) : TickEnd(failed)

SpecArchive == Init /\ [][NextArchive]_vars

\* the whole server with its tracker log recorded
SpecLog == InitLog /\ [][Next]_vars

TypeOK ==
    /\ \A i \in 1..Len(sts) : sts[i].id \in 1..MaxPush
    /\ DOMAIN balances \subseteq Relays
    /\ alive \in BOOLEAN
    /\ tk.t \in 1..MaxTime

\* ============================================================== properties
\* the latest tick has returned (it did not panic) and nothing runs in it
Returned == tk.pc = "idle" /\ tk.ret

\* the queued STs, and those that were queued when the latest tick started
Queued == {sts[i] : i \in 1..Len(sts)}
SeenQueued == {s \in Queued : s.id <= tk.seen}

\* C1: every ST pushed before tick(t) whose settlement_close <= t has been
\* counted into totals and tokens by exactly one tick, whose distribution
\* credited the ST's relay for its servicekey; no ST is counted twice and no
\* due ST is left uncounted.
C1_DueCountedOnce ==
    /\ \A i \in 1..MaxPush : counted[i] <= 1
    /\ Returned =>
         /\ \A s \in SeenQueued : s.settlement_close > tk.t
         /\ \A i \in 1..tk.seen :
              (\A s \in Queued : s.id # i) => counted[i] = 1 /\ i \in credited

\* C2: after tick(t) has returned, no ST that was queued before the tick and
\* has settlement_close <= t is still in the heap.
C2_NoDueLeft ==
    Returned => \A s \in SeenQueued : ~(s.settlement_close <= tk.t)

\* C3: the ST peek returns has the least settlement_close of all queued STs.
C3_TopIsEarliestDue ==
    sts # <<>> =>
      \A o \in Queued : heap_peek(sts).settlement_close <= o.settlement_close

\* C4: available(r) >= 0 for every relay r, and a pending withdrawal leaves
\* available(r) + pending(r) > 0.
C4_AvailableStaysPositive ==
    \A r \in DOMAIN balances :
       /\ balances[r].a >= 0
       /\ balances[r].p < 0 => balances[r].a + balances[r].p > 0

\* a withdrawal is pending on a relay that rewards were distributed to
C4_Witness ==
    \E r \in DOMAIN balances :
       balances[r].p < 0 /\ balances[r].a + balances[r].p > 0

\* C5: of two drafts for one relay with no commit between them, the first of
\* which returned Ok, the second returns the "already pending" error; a draft
\* for one relay leaves the balances of the other relays as they were.
C5_SecondDraftRejected ==
    [][lastOp'.drafted =>
         /\ hist[lastOp'.rk].prev \in {"Ok", "Ok0"} => lastOp'.res = "pending"
         /\ \A q \in Relays \ {lastOp'.rk} :
              Bal(balances', q) = Bal(balances, q)]_vars

\* C6: once a draft for relay r has returned Ok, every later draft for r
\* returns the "already pending" error until a commit for r is executed.
C6_PendingUntilCommit ==
    [][(lastOp'.drafted /\ hist[lastOp'.rk].ok) => lastOp'.res = "pending"]_vars

\* C7: a draft of delta < 0 for relay r returns Ok exactly when pending(r) = 0,
\* available(r) > 0 and available(r) + delta > 0; on Ok, pending(r) becomes
\* delta and available(r) stays.
C7_WithdrawalDraft ==
    [][(lastOp'.drafted /\ lastOp'.delta < 0) =>
         LET b == Bal(balances, lastOp'.rk)
         IN  /\ lastOp'.res = "Ok" <=>
                  (b.p = 0 /\ b.a > 0 /\ b.a + lastOp'.delta > 0)
             /\ lastOp'.res = "Ok" =>
                  Bal(balances', lastOp'.rk) = [a |-> b.a, p |-> lastOp'.delta]
       ]_vars

\* a withdrawal draft has just been accepted and is the pending delta
C7_Witness ==
    /\ lastOp.drafted /\ lastOp.delta < 0 /\ lastOp.res = "Ok"
    /\ Bal(balances, lastOp.rk).p = lastOp.delta

\* C8: commit(r, Apply) adds pending(r) to available(r) and zeroes pending(r);
\* commit(r, Abort) zeroes pending(r) and leaves available(r); no other
\* relay's balance changes.
C8_CommitEffect ==
    [][(txn_chan # <<>> /\ txn_chan' = Tail(txn_chan)) =>
         LET u == Head(txn_chan)
             b == Bal(balances, u.relay)
         IN  /\ Bal(balances', u.relay) =
                  IF u.action = "Apply" THEN [a |-> b.a + b.p, p |-> 0]
                  ELSE [a |-> b.a, p |-> 0]
             /\ \A q \in Relays \ {u.relay} :
                  Bal(balances', q) = Bal(balances, q)
       ]_vars

\* an Abort has just discarded a pending withdrawal
C8_Witness ==
    /\ lastOp.op = "commit" /\ lastOp.res = "Abort" /\ lastOp.delta < 0
    /\ Bal(balances, lastOp.rk).p = 0 /\ Bal(balances, lastOp.rk).a > 0

\* no tick running, no /withdraw handler in progress, no withdrawal with the
\* watcher, no BalanceUpdate in the channel
Quiescent ==
    /\ tk.pc = "idle"
    /\ wh = Idle
    /\ watcher_chan = <<>>
    /\ txn_chan = <<>>

\* C9: in every quiescent state pending(r) = 0 for every relay r.
C9_QuiescentNoPending ==
    Quiescent => \A r \in DOMAIN balances : balances[r].p = 0

\* C10: every accepted withdrawal is followed by exactly one commit for its
\* relay: commits never outnumber the accepted withdrawals, and the accepted
\* withdrawals of a relay are eventually all committed.
C10_ExactlyOneCommit ==
    /\ [](\A r \in Relays : open[r] >= 0)
    /\ \A r \in Relays : (open[r] > 0) ~> (open[r] = 0)

\* the positions of the log that hold an event ev for relay rk
LogAt(ev, rk) == {i \in 1..Len(log) : log[i].ev = ev /\ log[i].rk = rk}

\* C11: the log has a WithdrawalPending(relay, delta) for every successful
\* withdrawal draft, written by the draft, and every WithdrawalFinal of a
\* relay comes after a WithdrawalPending of that relay.
C11_WithdrawalsLogged ==
    /\ (lastOp.drafted /\ lastOp.res = "Ok") =>
         /\ log # <<>>
         /\ log[Len(log)] =
              Event("WithdrawalPending", "", lastOp.rk, lastOp.delta, "")
    /\ \A r \in Relays : \A j \in LogAt("WithdrawalFinal", r) :
         \E i \in LogAt("WithdrawalPending", r) : i < j

\* C12: the distribution step of a tick never hits a fatal assertion: the
\* reward is not negative and the draft for the relay returns Ok, whatever
\* the relay has pending, so the tracker task survives every step of a tick.
C12_DistributionNeverPanics ==
    [][tk.pc = "dist" => alive']_vars

\* the distribution loop of the running tick has handled every token count
DistDone == tk.pc = "dist" /\ \A k \in DOMAIN tokens : tokens[k] = 0

\* the number of STs the running tick drained for (sk, rk), and for sk
Due(sk, rk) ==
    Cardinality({i \in 1..Len(archive_q) :
                   /\ archive_q[i].public_key = sk
                   /\ archive_q[i].relay_pubkey = rk})
DueOf(sk) == Cardinality({i \in 1..Len(archive_q) : archive_q[i].public_key = sk})

\* the credit of (sk, rk) as the tick computes it
Credit(sk, rk) ==
    IF Due(sk, rk) = 0 THEN 0
    ELSE reward(DecDiv(DecFrom(Due(sk, rk)), DecFrom(DueOf(sk))))

\* what a ledger that was empty before the tick now holds in all
Credited == SumOf([r \in ShareRelays |-> Bal(balances, r).a], ShareRelays)
Settled == {sk \in SKs : DueOf(sk) > 0}
Pool == reward(DecFrom(1))

\* counts 3 and 1 of 4 are credited 67.5 and 22.5, a relay holding all the
\* STs of the only servicekey settled is credited 90
ShareExamples ==
    \A sk \in SKs, r \in ShareRelays :
       (Settled = {sk} /\ DistDone) =>
          /\ (Due(sk, r) = 3 /\ DueOf(sk) = 4) => Bal(balances, r).a = 67500
          /\ (Due(sk, r) = 1 /\ DueOf(sk) = 4) => Bal(balances, r).a = 22500
          /\ (Due(sk, r) = DueOf(sk)) => Bal(balances, r).a = 90000

\* C13 as stated: the credits of every servicekey settled in the tick sum to
\* reward(1), and the examples hold.
C13_CreditsSumToPool ==
    /\ DistDone => Credited = Cardinality(Settled) * Pool
    /\ ShareExamples

\* C13 amended: every relay is credited reward(k / n) with the share k / n
\* rounded to the precision of Decimal, for each servicekey; the credits of a
\* servicekey sum to reward(1) up to half a unit in the last place of each
\* share; the examples hold exactly.
C13_CreditsUpToRounding ==
    /\ DistDone =>
         /\ \A r \in ShareRelays :
              Bal(balances, r).a =
                SumOf([sk \in SKs |-> Credit(sk, r)], SKs)
         /\ LET err == Credited - Cardinality(Settled) * Pool
                shares == Cardinality({k \in ShareKeys : Due(k[1], k[2]) > 0})
            IN  /\ 2 * Scale * err <= shares * Pool
                /\ 2 * Scale * (0 - err) <= shares * Pool
    /\ ShareExamples

\* three relays hold one due ST each of the same servicekey and have been
\* credited a third of the pool each, rounded
C13_Witness ==
    /\ DistDone /\ Settled = {"K1"}
    /\ \A r \in ShareRelays : Due("K1", r) = 1 /\ Bal(balances, r).a = 29970

\* C14: tick(t) returns the settlement_close of the heap's top ST if the heap
\* is not empty after the drain loop, and t + interval if it is.
C14_TickReturnsNext ==
    [][(tk.pc = "dist" /\ tk'.pc = "idle" /\ tk'.ret) =>
         tk'.next = IF sts' = <<>> THEN tk'.t + interval
                    ELSE heap_peek(sts').settlement_close]_vars

\* a tick has popped an ST, left one that is due later and returned its
\* settlement_close
C14_Witness ==
    /\ Returned /\ tk.seen = npushed
    /\ \E i \in 1..tk.seen : counted[i] = 1
    /\ sts # <<>>
    /\ heap_peek(sts).settlement_close > tk.t
    /\ tk.next = heap_peek(sts).settlement_close

\* C15: tick(t) leaves every ST with settlement_close > t in the heap; a tick
\* in which no ST is due pops nothing, adds nothing to archive_q, counts
\* nothing and changes no balance; an ST that the latest tick left in the heap
\* as not yet due is popped by the next tick if it is due by then.
C15_DeferredThenSettled ==
    [][/\ (tk.pc = "idle" /\ tk'.pc = "dist") =>
            /\ \A s \in Queued : s.settlement_close > tk'.t => s \in Queued'
            /\ (\A s \in Queued : s.settlement_close > tk'.t) =>
                  /\ sts' = sts /\ archive_q' = archive_q
                  /\ tokens' = tokens /\ totals' = totals
            /\ \A s \in Queued :
                 (/\ tk.ret /\ s.id <= tk.seen
                  /\ s.settlement_close > tk.t
                  /\ s.settlement_close <= tk'.t) => s \notin Queued'
       /\ (tk.pc = "dist" /\ \A k \in DOMAIN tokens : tokens[k] = 0) =>
            balances' = balances
      ]_vars

\* C16: a /withdraw whose signature header does not verify over the request
\* body is rejected: it drafts nothing on the ledger and no request goes to
\* the payment system.
C16_BadSignatureRejected ==
    [][(lastOp'.op = "withdraw" /\ lastOp'.inp = "badsig") =>
         /\ ~lastOp'.drafted
         /\ balances' = balances
         /\ wh' = wh]_vars

\* the wireleap-<signatory>-<field> headers of a request, by position
Signatories == {"auth", "relay", "client", "contract", "directory"}
PairHeaders(req) ==
    {i \in 1..Len(req.headers) :
        LET k == req.headers[i].k
        IN  Len(k) = 3 /\ k[1] = "wireleap" /\ k[2] \in Signatories
                       /\ k[3] \in {"pubkey", "signature"}}

\* the request carries exactly one pair, of one signatory, and its signature
\* verifies under its key over the body
OnePair(req) ==
    \E i, j \in PairHeaders(req) :
        /\ PairHeaders(req) = {i, j}
        /\ req.headers[i].k[3] = "pubkey"
        /\ req.headers[j].k[3] = "signature"
        /\ req.headers[i].k[2] = req.headers[j].k[2]
        /\ req.headers[i].v.t = "pk"
        /\ verify(req.headers[i].v, req.body, req.headers[j].v)

\* C17: the extractor accepts a request exactly when it carries one
\* wireleap-<signatory>-pubkey / wireleap-<signatory>-signature pair whose
\* signature verifies over the body, and then yields the parsed payload; a
\* request with no pair header at all is rejected with 400 "missing headers".
C17_AcceptsExactlyOnePair ==
    lastOp.op = "extract" =>
        /\ lastOp.res.ok <=> OnePair(lastOp.inp)
        /\ lastOp.res.ok => lastOp.res.data = Json_from(lastOp.inp.body)
        /\ PairHeaders(lastOp.inp) = {} =>
             lastOp.res.code = 400 /\ lastOp.res.desc = "missing headers"

\* the latest request was a /submit of a Sharetoken
Submitted == lastOp.op = "submit"

\* C18: a /submit whose Sharetoken signature does not verify over the ST's
\* digest under the ST's public_key is answered with code 400 and leaves the
\* tracker heap, the ledger and the tracker log as they were.
C18_BadSignatureSubmit ==
    [][(lastOp'.op = "submit" /\
        ~verify(PubkeyOf(lastOp'.inp.public_key), digest(lastOp'.inp),
                lastOp'.inp.signature)) =>
         /\ lastOp'.res.code = 400
         /\ sts' = sts
         /\ balances' = balances
         /\ log' = log]_vars

\* a Sharetoken for this contract, altered after signing, was refused while
\* the heap and the log held something
C18_Witness ==
    /\ Submitted
    /\ lastOp.inp.contract.public_key = ServerKey
    /\ lastOp.inp.timestamp = 2
    /\ ~Signed_deserialize(lastOp.inp)
    /\ lastOp.res.code = 400
    /\ Len(sts) > 0 /\ Len(log) > 0 /\ DOMAIN balances # {}

\* C19: a /submit of a validly signed Sharetoken whose contract.public_key is
\* not the server's is answered with code 400 "Sharetoken is not for this
\* contract" and is not pushed: heap, ledger and log stay as they were.
C19_WrongContractSubmit ==
    [][(lastOp'.op = "submit" /\
        verify(PubkeyOf(lastOp'.inp.public_key), digest(lastOp'.inp),
               lastOp'.inp.signature) /\
        lastOp'.inp.contract.public_key # ServerKey) =>
         /\ lastOp'.res = [code |-> 400,
                           desc |-> "Sharetoken is not for this contract"]
         /\ sts' = sts
         /\ balances' = balances
         /\ log' = log]_vars

\* a validly signed Sharetoken of another contract was refused while the heap
\* and the log held a Sharetoken of this contract
C19_Witness ==
    /\ Submitted
    /\ lastOp.inp.contract.public_key # ServerKey
    /\ lastOp.inp = Sharetoken(lastOp.inp.public_key, lastOp.inp.relay_pubkey,
                               1, 1, lastOp.inp.contract.public_key)
    /\ lastOp.res.code = 400
    /\ Len(sts) > 0 /\ Len(log) > 0

C21_FailedWriteRetried ==
    [][(tk.pc = "dist" /\ tk'.pc = "idle" /\ tk'.ret) =>
         \A id \in Ids(archive_q) :
            id \in fs'.archive \/ id \in Ids(archive_q')]_vars

\* C22: one call of txn_tick commits every BalanceUpdate that is in the
\* channel when it is called: when the call has committed, none of them is
\* left in the channel.
C22_TxnTickDrainsChannel ==
    [][lastOp'.op = "commit" => txn_chan' = <<>>]_vars

\* C23: the snapshot written at a graceful shutdown and reloaded at the next
\* startup gives the ledger the same relay keys and, for every relay, the
\* same available value as before the shutdown.
C23_SnapshotRestoresAvailable ==
    [][(lastOp.op = "drop" /\ lastOp.res = "written" /\ lastOp'.op = "new") =>
         /\ DOMAIN balances' = DOMAIN balances
         /\ \A rk \in DOMAIN balances : balances'[rk].a = balances[rk].a]_vars

\* a startup has restored a ledger with a positive balance and with an
\* uncommitted withdrawal
C23_Witness ==
    /\ lastOp.op = "new"
    /\ \E rk \in DOMAIN balances : balances[rk].a > 0 /\ balances[rk].p < 0

\* C24: activate answers with a contract whose settlement_open is the second
\* of now + servicekey.duration and whose settlement_close is settlement_open
\* + settlement.submission_window, so open <= close; its public_key is the
\* server key and its signature is the server's over
\* "public_key:settlement_open:settlement_close"; nothing of the tracker, the
\* ledger or the relays changes
C24_ActivateContract ==
    [][lastOp'.op = "activate" =>
         LET c == lastOp'.skc
             at == lastOp'.now + duration * SubSec
         IN  /\ c.settlement_open * SubSec <= at
             /\ at < (c.settlement_open + 1) * SubSec
             /\ c.settlement_close = c.settlement_open + submission_window
             /\ c.settlement_open <= c.settlement_close
             /\ c.public_key = ServerKey
             /\ verify(PubkeyOf(ServerKey),
                       <<c.public_key, ":", ToString(c.settlement_open), ":",
                         ToString(c.settlement_close)>>,
                       c.signature)
             /\ UNCHANGED <<sts, balances, totals, tokens, archive_q, log, fs,
                            txn_chan, watcher_chan, wh, tk, alive, hist,
                            open>>]_vars

\* an activation between two seconds, with STs in the heap and a credited
\* ledger
C24_Witness ==
    /\ lastOp.op = "activate"
    /\ lastOp.now % SubSec # 0
    /\ sts # <<>>
    /\ \E rk \in DOMAIN balances : balances[rk].a > 0

\* C25: after the payment system's answer, state Pending sends the withdrawal
\* to the watcher and enqueues no BalanceUpdate, state Complete enqueues
\* exactly one Apply for the relay, state Error exactly one Abort
C25_AnswerEnqueuesUpdate ==
    [][lastOp'.op = "ps" =>
         /\ lastOp'.res = "Pending" =>
               /\ watcher_chan' = Append(watcher_chan, lastOp'.rk)
               /\ txn_chan' = txn_chan
         /\ lastOp'.res = "Complete" =>
               txn_chan' = Append(txn_chan, [relay |-> lastOp'.rk,
                                             action |-> "Apply"])
         /\ lastOp'.res = "Error" =>
               txn_chan' = Append(txn_chan, [relay |-> lastOp'.rk,
                                             action |-> "Abort"])]_vars

\* C26: when the payment-system request fails or its answer cannot be read,
\* the draft is aborted: the relay's pending is 0 again
C26_FailedRequestAbortsDraft ==
    [][(lastOp'.op = "ps" /\ lastOp'.res = "fail") =>
         Bal(balances', lastOp'.rk).p = 0]_vars

\* C27: the payment system is asked only after draft returned Ok; with no
\* fitting payout method or a failed draft the handler answers with the
\* reason, asks nothing of the payment system and leaves every relay's
\* (available, pending) as it was
C27_RequestOnlyAfterDraft ==
    [][lastOp'.op = "withdraw" =>
         /\ wh'.pc = "ps" => (lastOp'.drafted /\ lastOp'.res = "Ok")
         /\ lastOp'.res # "Ok" =>
               /\ wh' = wh
               /\ lastOp'.res \in {"no payout", "pending", "zero cash",
                                   "insufficient", "overflow"}
               /\ \A rk \in Relays : Bal(balances', rk) = Bal(balances, rk)]_vars

\* a draft that failed for a relay with funds
C27_Witness ==
    /\ lastOp.op = "withdraw" /\ lastOp.drafted /\ lastOp.res # "Ok"
    /\ Bal(balances, lastOp.rk).a > 0
    /\ wh.pc = "idle"

\* C28: the settlement batch of a tick is all-or-nothing: when a tick dies in
\* the middle of its distribution, none of its credits stays on the ledger and
\* none of the STs it popped is missing from both the heap and the credited
\* balances; a tick that completes has applied all of its credits
C28_BatchAllOrNothing ==
    [][/\ (tk.pc = "dist" /\ ~alive') =>
            /\ credited' \cap Ids(archive_q) = {}
            /\ \A id \in Ids(archive_q) : id \in Ids(sts') \/ id \in credited'
       /\ (tk.pc = "dist" /\ tk'.pc = "idle" /\ alive') =>
            Ids(archive_q) \subseteq credited']_vars

\* the events a step appends to the log
Appended == SubSeq(log', Len(log) + 1, Len(log'))

\* C29: a tick logs exactly one Settlement(sk) for every servicekey that had
\* an ST popped in that tick and none for any other servicekey, and logs
\* them after all of its Distribution events: the distribution steps append
\* no Settlement, and the end of the tick appends the Settlements and nothing
\* else
C29_OneSettlementPerKey ==
    [][/\ (tk.pc = "dist" /\ tk'.pc = "idle" /\ alive') =>
            /\ \A sk \in SKs :
                 Cardinality({i \in 1..Len(Appended) :
                                Appended[i] = Event("Settlement", sk, "", 0, "")})
                   = IF DueOf(sk) > 0 THEN 1 ELSE 0
            /\ \A i \in 1..Len(Appended) :
                 Appended[i].ev = "Settlement" /\ Appended[i].sk \in SKs
       /\ (tk'.pc = "dist") =>
            \A i \in 1..Len(Appended) : Appended[i].ev # "Settlement"]_vars

\* a tick that settled two servicekeys has ended: two Distribution events
\* followed by two Settlement events
C29_Witness ==
    /\ tk.pc = "idle" /\ tk.ret
    /\ Len(log) >= 4
    /\ log[Len(log) - 3].ev = "Distribution"
    /\ log[Len(log) - 2].ev = "Distribution"
    /\ log[Len(log) - 1].ev = "Settlement"
    /\ log[Len(log)].ev = "Settlement"
    /\ log[Len(log) - 1].sk # log[Len(log)].sk

\* the positions of the log that hold a Distribution event
Distributions == {i \in 1..Len(log) : log[i].ev = "Distribution"}

\* C30: within a tick every Distribution event of a servicekey is computed
\* from the final totals of the tick (its amount is the reward of the share
\* of all the STs due), and the Distribution events of one servicekey are a
\* contiguous block of the log, not interleaved with those of another
C30_DistributionsInBlocks ==
    tk.pc = "dist" =>
       /\ \A i \in Distributions :
            log[i].delta = Credit(log[i].sk, log[i].rk)
       /\ \A i, j, k \in Distributions :
            (i < j /\ j < k /\ log[i].sk = log[k].sk) => log[j].sk = log[i].sk

\* C31: a startup begins with an empty heap whatever unsettled/ holds, so an
\* ST that was queued at a shutdown is in no heap and no batch of the later
\* processes and is credited by no later tick (a new submission is a new
\* push), while the ledger is the one of balances.json
C31_UnsettledNotReloaded ==
    /\ lastOp.op = "new" =>
          /\ sts = <<>>
          /\ fs.saved =>
                /\ DOMAIN balances = {fs.balances[i].k : i \in 1..Len(fs.balances)}
                /\ \A i \in 1..Len(fs.balances) :
                      balances[fs.balances[i].k].a =
                        Decimal_from_str(fs.balances[i].a)
    /\ tk.pc # "down" =>
          \A id \in fs.unsettled :
             id \notin (Ids(sts) \cup Ids(archive_q) \cup credited)

\* a tick has ended after a restart that left an ST in unsettled/ and
\* restored a credited relay
C31_Witness ==
    /\ fs.unsettled # {} /\ fs.saved
    /\ tk.pc = "idle" /\ tk.ret
    /\ \E rk \in DOMAIN balances : balances[rk].a > 0

\* C32: over all ticks the rewards credited for one servicekey sum to at most
\* reward(1). Where every ST is of servicekey K1 and nothing is withdrawn,
\* the sum credited for K1 is the sum of the available balances
C32_KeyCreditedOnce ==
    SumOf([r \in Relays |-> Bal(balances, r).a], Relays) <= Pool

\* C33: an ST submitted more than once is counted at most once in totals and
\* tokens. Where every accepted submission is the one signed ST of (K1, R1),
\* the counts of a tick are at most 1 and the ST is counted by one tick only
C33_ResubmittedCountedOnce ==
    /\ totals["K1"] <= DecFrom(1)
    /\ tokens[<<"K1", "R1">>] <= DecFrom(1)
    /\ SumOf([i \in 1..MaxPush |-> counted[i]], 1..MaxPush) <= 1

\* C34: /submit pushes an ST only if its embedded contract is one the server
\* issued: contract.signature verifies under the server key over
\* "public_key:settlement_open:settlement_close". An ST with the server's key
\* in its contract and a settlement_close the server never signed is refused
C34_ContractSignatureChecked ==
    (lastOp.op = "submit" /\ lastOp.res.code = 200) =>
       LET c == lastOp.inp.contract
       IN  verify(PubkeyOf(ServerKey),
                  Join(<<c.public_key, ToString(c.settlement_open),
                         ToString(c.settlement_close)>>),
                  c.signature)

\* C35: a draft that returns Err leaves the balances map as it was: the same
\* relay keys with the same (available, pending), also for a relay that was
\* not in the map
C35_FailedDraftChangesNothing ==
    [][(lastOp'.op = "withdraw" /\ lastOp'.drafted /\ lastOp'.res # "Ok") =>
         /\ DOMAIN balances' = DOMAIN balances
         /\ \A rk \in DOMAIN balances : balances'[rk] = balances[rk]]_vars

\* C36: right after a startup from balances.json every relay's pending is 0,
\* also when a withdrawal draft was uncommitted at the shutdown
C36_StartupClearsPending ==
    lastOp.op = "new" => \A rk \in DOMAIN balances : balances[rk].p = 0

\* C37: while a /withdraw handler waits for the payment system's answer,
\* another request that needs the shared state can run to completion: an
\* /activate can, and so can a /submit when the tracker is not in a tick
C37_NoLockAcrossPaymentCall ==
    wh.pc = "ps" =>
       /\ ENABLED Activate(0)
       /\ (~tracker_locked /\ LogRoom /\ npushed < MaxPush) =>
             ENABLED Submit("K1", "R2", 1, 1, TRUE)

\* C38: for all ChronoSort values a and b, partial_cmp and cmp agree
\* (a.partial_cmp(b) = Some(a.cmp(b))), so the comparison operators and cmp
\* order the elements the same way
C38_OrdAgreesWithPartialOrd ==
    lastOp.op = "compare" => lastOp.res.partial = lastOp.res.ord

====
